---- MODULE Spec2Model ----
(***************************************************************************)
(* Two-level set-associative cache simulator (WBWA, LRU): the Cache class  *)
(* of cache.h/cache.cc and the trace loop of sim.cc.                       *)
(*                                                                         *)
(* A Cache object is a record with the fields of the class (cfg_, stats_,  *)
(* sets_, off_bits_, idx_bits_, idx_mask_, sets_vec_).  A Cache* is a      *)
(* sequence of length 0 (nullptr) or 1 (the pointee).  Every member        *)
(* function is an operator from the object (and the pointee of next_level) *)
(* to the updated object(s).                                               *)
(*                                                                         *)
(* Addresses and lru_age are uint32_t in the source.  The addresses used   *)
(* here are far below 2^32 and lru_age grows by at most one per access, so *)
(* no value reaches the width within the bounds; wrap-around of lru_age    *)
(* (2^32 touches of one set without touching a resident line) is outside   *)
(* what is explored.                                                       *)
(***************************************************************************)
EXTENDS Integers, Sequences, FiniteSets, TLC

VARIABLES params, l1, l2, N, events, lastEv, ref, refhit, hist, report

vars == <<params, l1, l2, N, events, lastEv, ref, refhit, hist, report>>

\* ---- bounds ----
MaxAccesses == 4
MaxApiAccesses == 3
NumBlocks == 4

\* ---- Op ----
Read == "Read"
Write == "Write"
Op == {Read, Write}

nullptr == <<>>

\* ---- bit helpers (operands are non-negative) ----
RECURSIVE BitAnd(_, _)
BitAnd(a, b) ==
  IF a = 0 \/ b = 0 THEN 0
  ELSE ((a % 2) * (b % 2)) + 2 * BitAnd(a \div 2, b \div 2)

RECURSIVE BitOr(_, _)
BitOr(a, b) ==
  IF a = 0 THEN b
  ELSE IF b = 0 THEN a
  ELSE (IF (a % 2) + (b % 2) > 0 THEN 1 ELSE 0) + 2 * BitOr(a \div 2, b \div 2)

ShiftR(a, n) == a \div (2 ^ n)
ShiftL(a, n) == a * (2 ^ n)

\* ---- construction ----
RECURSIVE ilog2_loop(_, _)
ilog2_loop(x, n) == IF 2 ^ n < x THEN ilog2_loop(x, n + 1) ELSE n

ilog2_uint32(x) == ilog2_loop(x, 0)

AccessStats ==
  [reads |-> 0, read_misses |-> 0, writes |-> 0, write_misses |-> 0,
   writebacks |-> 0, memory_reads |-> 0, memory_writes |-> 0,
   pref_issued |-> 0, pref_useful |-> 0, pref_late |-> 0]

Line == [valid |-> FALSE, dirty |-> FALSE, tag |-> 0, lru_age |-> 0]

compute_geometry_(cfg) ==
  LET sets == cfg.size_bytes \div (cfg.assoc * cfg.block_bytes)
      off  == ilog2_uint32(cfg.block_bytes)
      idx  == ilog2_uint32(sets)
  IN [sets_ |-> sets, off_bits_ |-> off, idx_bits_ |-> idx,
      idx_mask_ |-> (2 ^ idx) - 1]

\* faulty variant: the loop assigning the initial ages is missing
init_storage_no_ages(sets, assoc) ==
  [s \in 0..(sets - 1) |-> [w \in 0..(assoc - 1) |-> Line]]

init_storage_(sets, assoc) ==
  [s \in 0..(sets - 1) |-> [w \in 0..(assoc - 1) |-> [Line EXCEPT !.lru_age = w]]]

Cache(cfg) ==
  LET g == compute_geometry_(cfg)
  IN [cfg_ |-> cfg, stats_ |-> AccessStats,
      sets_ |-> g.sets_, off_bits_ |-> g.off_bits_, idx_bits_ |-> g.idx_bits_,
      idx_mask_ |-> g.idx_mask_,
      sets_vec_ |-> init_storage_(g.sets_, cfg.assoc)]

Ways(c) == 0..(c.cfg_.assoc - 1)
Sets(c) == 0..(c.sets_ - 1)

\* ---- address helpers ----
\* faulty variant: the offset bits are not shifted out
index_of_no_shift(c, addr) == BitAnd(addr, c.idx_mask_)

index_of(c, addr) == BitAnd(ShiftR(addr, c.off_bits_), c.idx_mask_)

tag_of(c, addr) == ShiftR(addr, c.off_bits_ + c.idx_bits_)

\* addr & ~(block_bytes - 1): clearing the bits of the mask block_bytes - 1
block_aligned(c, addr) == addr - BitAnd(addr, c.cfg_.block_bytes - 1)

\* ---- core operations ----
RECURSIVE find_way_loop(_, _, _)
find_way_loop(lines, tag, w) ==
  IF w >= Len(lines) THEN -1
  ELSE IF lines[w + 1].valid /\ lines[w + 1].tag = tag THEN w
  ELSE find_way_loop(lines, tag, w + 1)

\* a set as the sequence of its ways, way w at position w + 1
LinesOf(c, set) == [i \in 1..c.cfg_.assoc |-> c.sets_vec_[set][i - 1]]

\* faulty variant: only way 0 is examined
find_way_first_only(c, set, tag) ==
  find_way_loop(SubSeq(LinesOf(c, set), 1, 1), tag, 0)

\* faulty variant: the valid flag is not examined
find_way_any_tag(c, set, tag) ==
  find_way_loop([i \in 1..c.cfg_.assoc |-> [LinesOf(c, set)[i] EXCEPT !.valid = TRUE]],
                tag, 0)

find_way(c, set, tag) == find_way_loop(LinesOf(c, set), tag, 0)

RECURSIVE choose_victim_loop(_, _, _, _)
choose_victim_loop(lines, w, victim, max_age) ==
  IF w >= Len(lines) THEN victim
  ELSE IF ~lines[w + 1].valid THEN w
  ELSE IF lines[w + 1].lru_age >= max_age
       THEN choose_victim_loop(lines, w + 1, w, lines[w + 1].lru_age)
       ELSE choose_victim_loop(lines, w + 1, victim, max_age)

\* faulty variant: the comparison is reversed, the youngest line is chosen
RECURSIVE choose_victim_loop_min(_, _, _, _)
choose_victim_loop_min(lines, w, victim, min_age) ==
  IF w >= Len(lines) THEN victim
  ELSE IF ~lines[w + 1].valid THEN w
  ELSE IF lines[w + 1].lru_age <= min_age
       THEN choose_victim_loop_min(lines, w + 1, w, lines[w + 1].lru_age)
       ELSE choose_victim_loop_min(lines, w + 1, victim, min_age)

choose_victim_way_youngest(c, set) ==
  choose_victim_loop_min(LinesOf(c, set), 0, 0, 0)

choose_victim_way(c, set) == choose_victim_loop(LinesOf(c, set), 0, 0, 0)

\* faulty variant: the other lines are not aged
touch_as_mru_no_aging(c, set, way) ==
  [c EXCEPT !.sets_vec_[set][way].lru_age = 0]

\* faulty variant: invalid ways age too
touch_as_mru_all_ways(c, set, way) ==
  [c EXCEPT !.sets_vec_[set] =
     [w \in Ways(c) |->
        IF w = way THEN [@[w] EXCEPT !.lru_age = 0]
        ELSE [@[w] EXCEPT !.lru_age = @ + 1]]]

touch_as_mru(c, set, way) ==
  [c EXCEPT !.sets_vec_[set] =
     [w \in Ways(c) |->
        IF w = way THEN [@[w] EXCEPT !.lru_age = 0]
        ELSE IF @[w].valid THEN [@[w] EXCEPT !.lru_age = @ + 1]
        ELSE @[w]]]

\* faulty variant: the tag is not stored
fill_line_no_tag(c, set, way, tag, dirty) ==
  touch_as_mru(
    [c EXCEPT !.sets_vec_[set][way] = [@ EXCEPT !.valid = TRUE, !.dirty = dirty]],
    set, way)

\* faulty variant: the dirty flag of the victim survives the fill
fill_line_sticky_dirty(c, set, way, tag, dirty) ==
  touch_as_mru(
    [c EXCEPT !.sets_vec_[set][way] =
       [@ EXCEPT !.valid = TRUE, !.dirty = @ \/ dirty, !.tag = tag]],
    set, way)

fill_line(c, set, way, tag, dirty) ==
  touch_as_mru(
    [c EXCEPT !.sets_vec_[set][way] =
       [@ EXCEPT !.valid = TRUE, !.dirty = dirty, !.tag = tag]],
    set, way)

\* ---- print_contents ----
\* the digits of std::hex output, most significant first
RECURSIVE HexDigits(_)
HexDigits(n) == IF n < 16 THEN <<n>> ELSE Append(HexDigits(n \div 16), n % 16)

\* the results std::sort may give for the ways V of a set under the comparator
\* a.lru_age < b.lru_age: every arrangement with no pair out of order
\* (lines of equal age may come out in either order)
\* faulty variant: the comparator is reversed
sorted_lines_descending(c, s, V) ==
  { f \in [1..Cardinality(V) -> V] :
      /\ \A i, j \in 1..Cardinality(V) : i # j => f[i] # f[j]
      /\ \A i, j \in 1..Cardinality(V) :
           i < j => c.sets_vec_[s][f[i]].lru_age >= c.sets_vec_[s][f[j]].lru_age }

sorted_lines(c, s, V) ==
  { f \in [1..Cardinality(V) -> V] :
      /\ \A i, j \in 1..Cardinality(V) : i # j => f[i] # f[j]
      /\ \A i, j \in 1..Cardinality(V) :
           i < j => c.sets_vec_[s][f[i]].lru_age <= c.sets_vec_[s][f[j]].lru_age }

ValidWays(c, s) == {w \in Ways(c) : c.sets_vec_[s][w].valid}

\* one output line: the set number and, per line, the tag in hex and the " D" mark
text_line(c, s, f) ==
  [set |-> s,
   items |-> [i \in 1..Len(f) |->
                [hex |-> HexDigits(c.sets_vec_[s][f[i]].tag),
                 D |-> c.sets_vec_[s][f[i]].dirty]]]

\* the possible outputs for the sets s, s + 1, ..., sets_ - 1
RECURSIVE print_sets(_, _)
print_sets(c, s) ==
  IF s >= c.sets_ THEN {<<>>}
  ELSE IF ValidWays(c, s) = {}
       THEN print_sets(c, s + 1)
       ELSE { <<text_line(c, s, f)>> \o rest :
                f \in sorted_lines(c, s, ValidWays(c, s)), rest \in print_sets(c, s + 1) }

\* faulty variant: the lines of the set itself are sorted, not a copy of them
print_contents_in_place(c) ==
  { [self |-> [c EXCEPT !.sets_vec_ =
                 [s \in Sets(c) |->
                    LET f == CHOOSE g \in sorted_lines(c, s, Ways(c)) : TRUE
                    IN [w \in Ways(c) |-> c.sets_vec_[s][f[w + 1]]]]],
     text |-> t] : t \in print_sets(c, 0) }

\* the possible outcomes: the object afterwards and the text written
print_contents(c) == { [self |-> c, text |-> t] : t \in print_sets(c, 0) }

\* ---- reset (declared in cache.h, not defined in the sources): every
\* counter to zero and the storage as init_storage_ leaves it ----
reset(c) ==
  [c EXCEPT !.stats_ = AccessStats,
            !.sets_vec_ = init_storage_(c.sets_, c.cfg_.assoc)]

\* ---- observation of one call of access: the object before and after, the
\* result, the way filled on a miss (-1 on a hit), the calls it made on
\* next_level, in order, and this object as it was when each was made ----
Event(c, c2, op, addr, hit, victim, fwd, at) ==
  [name |-> c.cfg_.name, op |-> op, addr |-> addr, hit |-> hit,
   before |-> c, after |-> c2, victim |-> victim, fwd |-> fwd, at |-> at]

RECURSIVE access(_, _, _, _)

\* faulty variant: writebacks is counted only when the victim goes to memory
writeback_down_else_only(c, victim_block_addr, next_level) ==
  IF next_level # nullptr
  THEN LET r == access(next_level[1], Write, victim_block_addr, nullptr)
       IN [self |-> c,
           next |-> <<r.self>>,
           events |-> r.events,
           fwd |-> <<[op |-> Write, addr |-> victim_block_addr]>>,
           at |-> <<c>>]
  ELSE [self |-> [c EXCEPT !.stats_.memory_writes = @ + 1,
                           !.stats_.writebacks = @ + 1],
        next |-> next_level, events |-> <<>>, fwd |-> <<>>, at |-> <<>>]

\* faulty variant: a writeback reaching memory is not counted as a memory write
writeback_down_uncounted(c, victim_block_addr, next_level) ==
  IF next_level # nullptr
  THEN LET r == access(next_level[1], Write, victim_block_addr, nullptr)
       IN [self |-> [c EXCEPT !.stats_.writebacks = @ + 1],
           next |-> <<r.self>>,
           events |-> r.events,
           fwd |-> <<[op |-> Write, addr |-> victim_block_addr]>>,
           at |-> <<c>>]
  ELSE [self |-> [c EXCEPT !.stats_.writebacks = @ + 1],
        next |-> next_level, events |-> <<>>, fwd |-> <<>>, at |-> <<>>]

writeback_down(c, victim_block_addr, next_level) ==
  IF next_level # nullptr
  THEN LET r == access(next_level[1], Write, victim_block_addr, nullptr)
       IN [self |-> [c EXCEPT !.stats_.writebacks = @ + 1],
           next |-> <<r.self>>,
           events |-> r.events,
           fwd |-> <<[op |-> Write, addr |-> victim_block_addr]>>,
           at |-> <<c>>]
  ELSE [self |-> [c EXCEPT !.stats_.memory_writes = @ + 1,
                           !.stats_.writebacks = @ + 1],
        next |-> next_level, events |-> <<>>, fwd |-> <<>>, at |-> <<>>]

\* the test guarding the writeback of the victim
\* faulty variant: every valid victim is written back
needs_writeback_any_valid(vline) == vline.valid

needs_writeback(vline) == vline.valid /\ vline.dirty

\* the block address rebuilt from the victim's tag and the set index
\* faulty variant: the set index is left out
victim_block_addr_no_index(c, set, vtag) ==
  ShiftL(vtag, c.idx_bits_ + c.off_bits_)

victim_block_addr_of(c, set, vtag) ==
  BitOr(ShiftL(vtag, c.idx_bits_ + c.off_bits_), ShiftL(set, c.off_bits_))

\* the fill request; wb is the outcome of the writeback step before it
\* faulty variant: the memory read is counted although the next level serves it
fetch_block_always_counts(wb, addr) ==
  IF wb.next # nullptr
  THEN LET a == block_aligned(wb.self, addr)
           r == access(wb.next[1], Read, a, nullptr)
       IN [self |-> [wb.self EXCEPT !.stats_.memory_reads = @ + 1],
           next |-> <<r.self>>,
           events |-> wb.events \o r.events,
           fwd |-> Append(wb.fwd, [op |-> Read, addr |-> a]),
           at |-> Append(wb.at, wb.self)]
  ELSE [self |-> [wb.self EXCEPT !.stats_.memory_reads = @ + 1],
        next |-> wb.next, events |-> wb.events, fwd |-> wb.fwd, at |-> wb.at]

\* faulty variant: the line is filled without asking the next level
fetch_block_skips_next(wb, addr) ==
  IF wb.next # nullptr
  THEN [self |-> wb.self, next |-> wb.next, events |-> wb.events,
        fwd |-> wb.fwd, at |-> wb.at]
  ELSE [self |-> [wb.self EXCEPT !.stats_.memory_reads = @ + 1],
        next |-> wb.next, events |-> wb.events, fwd |-> wb.fwd, at |-> wb.at]

fetch_block(wb, addr) ==
  IF wb.next # nullptr
  THEN LET a == block_aligned(wb.self, addr)
           r == access(wb.next[1], Read, a, nullptr)
       IN [self |-> wb.self, next |-> <<r.self>>,
           events |-> wb.events \o r.events,
           fwd |-> Append(wb.fwd, [op |-> Read, addr |-> a]),
           at |-> Append(wb.at, wb.self)]
  ELSE [self |-> [wb.self EXCEPT !.stats_.memory_reads = @ + 1],
        next |-> wb.next, events |-> wb.events, fwd |-> wb.fwd, at |-> wb.at]

\* faulty variant: the line is installed before the victim is written back and
\* the block is fetched
allocate_on_miss_fill_first(c, addr, next_level, make_dirty) ==
  LET set == index_of(c, addr)
      tag == tag_of(c, addr)
      victim == choose_victim_way(c, set)
      vline == c.sets_vec_[set][victim]
      filled == fill_line(c, set, victim, tag, make_dirty)
      wb == IF needs_writeback(vline)
            THEN writeback_down(filled, victim_block_addr_of(c, set, vline.tag), next_level)
            ELSE [self |-> filled, next |-> next_level, events |-> <<>>, fwd |-> <<>>,
                  at |-> <<>>]
      rd == fetch_block(wb, addr)
  IN [self |-> rd.self,
      next |-> rd.next, events |-> rd.events, fwd |-> rd.fwd, at |-> rd.at,
      victim |-> victim]

allocate_on_miss(c, addr, next_level, make_dirty) ==
  LET set == index_of(c, addr)
      tag == tag_of(c, addr)
      victim == choose_victim_way(c, set)
      vline == c.sets_vec_[set][victim]
      wb == IF needs_writeback(vline)
            THEN writeback_down(c, victim_block_addr_of(c, set, vline.tag), next_level)
            ELSE [self |-> c, next |-> next_level, events |-> <<>>, fwd |-> <<>>,
                  at |-> <<>>]
      rd == fetch_block(wb, addr)
  IN [self |-> fill_line(rd.self, set, victim, tag, make_dirty),
      next |-> rd.next, events |-> rd.events, fwd |-> rd.fwd, at |-> rd.at,
      victim |-> victim]

\* the totals counted at the start of access
\* faulty variant: a write is not counted
count_access_reads_only(c, op) ==
  IF op = Read THEN [c EXCEPT !.stats_.reads = @ + 1] ELSE c

count_access(c, op) ==
  IF op = Read THEN [c EXCEPT !.stats_.reads = @ + 1]
               ELSE [c EXCEPT !.stats_.writes = @ + 1]

\* the dirty flag on a hit
\* faulty variant: the flag is assigned from the operation, a read hit cleans it
mark_dirty_on_hit_assign(c, op, set, way) ==
  [c EXCEPT !.sets_vec_[set][way].dirty = (op = Write)]

mark_dirty_on_hit(c, op, set, way) ==
  IF op = Write THEN [c EXCEPT !.sets_vec_[set][way].dirty = TRUE] ELSE c

\* faulty variant: a write hit is also written through to the next level
access_write_through(c, op, addr, next_level) ==
  LET set == index_of(c, addr)
      tag == tag_of(c, addr)
      c1 == count_access(c, op)
      way == find_way(c1, set, tag)
  IN IF way >= 0
     THEN LET c2 == mark_dirty_on_hit(c1, op, set, way)
              c3 == touch_as_mru(c2, set, way)
              through == op = Write /\ next_level # nullptr
              a == block_aligned(c, addr)
              r == access(next_level[1], Write, a, nullptr)
          IN [self |-> c3,
              next |-> IF through THEN <<r.self>> ELSE next_level,
              ret |-> TRUE,
              events |-> IF through
                         THEN Append(r.events,
                                Event(c, c3, op, addr, TRUE, -1,
                                      <<[op |-> Write, addr |-> a]>>, <<c3>>))
                         ELSE <<Event(c, c3, op, addr, TRUE, -1, <<>>, <<>>)>>]
     ELSE LET c2 == IF op = Read THEN [c1 EXCEPT !.stats_.read_misses = @ + 1]
                                 ELSE [c1 EXCEPT !.stats_.write_misses = @ + 1]
              make_dirty == (op = Write)
              r == allocate_on_miss(c2, addr, next_level, make_dirty)
          IN [self |-> r.self, next |-> r.next, ret |-> FALSE,
              events |-> Append(r.events,
                                Event(c, r.self, op, addr, FALSE, r.victim, r.fwd, r.at))]

access(c, op, addr, next_level) ==
  LET set == index_of(c, addr)
      tag == tag_of(c, addr)
      c1 == count_access(c, op)
      way == find_way(c1, set, tag)
  IN IF way >= 0
     THEN LET c2 == mark_dirty_on_hit(c1, op, set, way)
              c3 == touch_as_mru(c2, set, way)
          IN [self |-> c3, next |-> next_level, ret |-> TRUE,
              events |-> <<Event(c, c3, op, addr, TRUE, -1, <<>>, <<>>)>>]
     ELSE LET c2 == IF op = Read THEN [c1 EXCEPT !.stats_.read_misses = @ + 1]
                                 ELSE [c1 EXCEPT !.stats_.write_misses = @ + 1]
              make_dirty == (op = Write)
              r == allocate_on_miss(c2, addr, next_level, make_dirty)
          IN [self |-> r.self, next |-> r.next, ret |-> FALSE,
              events |-> Append(r.events,
                                Event(c, r.self, op, addr, FALSE, r.victim, r.fwd, r.at))]

\* ---- reference true-LRU stack of one set: block tags, most recent first ----
RefHit(stack, tag) == \E i \in 1..Len(stack) : stack[i] = tag

RefTouch(stack, tag, assoc) ==
  LET without == SelectSeq(stack, LAMBDA t : t # tag)
      kept == IF ~RefHit(stack, tag) /\ Len(stack) >= assoc
              THEN SubSeq(stack, 1, assoc - 1) ELSE without
  IN <<tag>> \o kept

\* the reference stacks after the calls evs[1..k], and the reference results
RECURSIVE RefRun(_, _, _)
RefRun(rf, evs, k) ==
  IF k = 0 THEN [ref |-> rf, hits |-> <<>>]
  ELSE LET p == RefRun(rf, evs, k - 1)
           e == evs[k]
           s == index_of(e.before, e.addr)
           t == tag_of(e.before, e.addr)
           st == p.ref[e.name][s]
       IN [ref |-> [p.ref EXCEPT ![e.name][s] = RefTouch(st, t, e.before.cfg_.assoc)],
           hits |-> Append(p.hits, RefHit(st, t))]

\* each call tagged with the call made just before it on the same object
RECURSIVE WithPrev(_, _, _)
WithPrev(last, evs, k) ==
  IF k = 0 THEN [last |-> last, evs |-> <<>>]
  ELSE LET p == WithPrev(last, evs, k - 1)
           e == evs[k]
           x == [op |-> e.op, addr |-> e.addr, hit |-> e.hit]
       IN [last |-> [p.last EXCEPT ![e.name] = <<x>>],
           evs |-> Append(p.evs,
                     [name |-> e.name, op |-> e.op, addr |-> e.addr, hit |-> e.hit,
                      before |-> e.before, after |-> e.after, victim |-> e.victim,
                      fwd |-> e.fwd, at |-> e.at, prev |-> p.last[e.name]])]

\* ---- driver (sim.cc) ----
Configs ==
  { [BLOCKSIZE |-> 4, L1_SIZE |-> 4,  L1_ASSOC |-> 1, L2_SIZE |-> 0,  L2_ASSOC |-> 0],
    [BLOCKSIZE |-> 4, L1_SIZE |-> 8,  L1_ASSOC |-> 2, L2_SIZE |-> 0,  L2_ASSOC |-> 0],
    [BLOCKSIZE |-> 4, L1_SIZE |-> 8,  L1_ASSOC |-> 1, L2_SIZE |-> 0,  L2_ASSOC |-> 0],
    [BLOCKSIZE |-> 4, L1_SIZE |-> 4,  L1_ASSOC |-> 1, L2_SIZE |-> 8,  L2_ASSOC |-> 2],
    [BLOCKSIZE |-> 4, L1_SIZE |-> 8,  L1_ASSOC |-> 2, L2_SIZE |-> 16, L2_ASSOC |-> 2],
    [BLOCKSIZE |-> 4, L1_SIZE |-> 8,  L1_ASSOC |-> 1, L2_SIZE |-> 8,  L2_ASSOC |-> 1] }

\* the trace: the first byte of each of the first NumBlocks blocks, and the
\* last byte of the second block
Addrs ==
  { b * params.BLOCKSIZE : b \in 0..(NumBlocks - 1) } \cup { 2 * params.BLOCKSIZE - 1 }

l1_cfg(p) == [name |-> "L1", size_bytes |-> p.L1_SIZE, assoc |-> p.L1_ASSOC,
              block_bytes |-> p.BLOCKSIZE]
l2_cfg(p) == [name |-> "L2", size_bytes |-> p.L2_SIZE, assoc |-> p.L2_ASSOC,
              block_bytes |-> p.BLOCKSIZE]

has_l2 == params.L2_SIZE > 0 /\ params.L2_ASSOC > 0

EmptyRef(c) == [s \in Sets(c) |-> <<>>]

\* what the last step was: "none", "access", "print" or "reset"; for print and
\* reset the object's name, for print the text and whether the step before was
\* a print of the same object, for reset whether the object had been accessed
NoReport == [kind |-> "none", name |-> "", text |-> <<>>, again |-> FALSE, used |-> FALSE]

InitWith(C) ==
  /\ params \in C
  /\ l1 = Cache(l1_cfg(params))
  /\ l2 = IF has_l2 THEN <<Cache(l2_cfg(params))>> ELSE nullptr
  /\ N = 0
  /\ events = <<>>
  /\ lastEv = [n \in {"L1", "L2"} |-> <<>>]
  /\ ref = [n \in {"L1", "L2"} |->
              IF n = "L1" THEN EmptyRef(l1)
              ELSE IF l2 # nullptr THEN EmptyRef(l2[1]) ELSE <<>>]
  /\ refhit = <<>>
  /\ hist = <<>>
  /\ report = NoReport

Init == InitWith(Configs)

\* one iteration of the trace loop: l1.access(op, addr, has_l2 ? l2.get() : nullptr)
\* (r is the outcome of the call, wp and rr the observations derived from it;
\* hist keeps the requests and their results when traced)
Serve(op, addr, traced) ==
  /\ \E r \in {access(l1, op, addr, IF has_l2 THEN l2 ELSE nullptr)} :
     \E wp \in {WithPrev(lastEv, r.events, Len(r.events))} :
     \E rr \in {RefRun(ref, r.events, Len(r.events))} :
        /\ l1' = r.self
        /\ l2' = r.next
        /\ events' = wp.evs
        /\ lastEv' = wp.last
        /\ ref' = rr.ref
        /\ refhit' = rr.hits
        /\ hist' = IF traced
                   THEN Append(hist, [op |-> op, addr |-> addr, hit |-> r.ret])
                   ELSE hist
  /\ N' = N + 1
  /\ report' = [NoReport EXCEPT !.kind = "access", !.name = "L1"]
  /\ UNCHANGED params

Request(op, addr) ==
  /\ N < MaxAccesses
  /\ Serve(op, addr, FALSE)

Next == \E op \in Op, addr \in Addrs : Request(op, addr)

Spec == Init /\ [][Next]_vars

\* ---- vocabulary of the properties ----
Engines == <<l1>> \o l2

EvIdx == 1..Len(events)

EvSet(e) == index_of(e.before, e.addr)
EvTag(e) == tag_of(e.before, e.addr)

\* the access was made with a next level: only the driver's calls on L1 are
HasNext(e) == e.name = "L1" /\ has_l2

Holds(c, set, tag) ==
  \E w \in Ways(c) : c.sets_vec_[set][w].valid /\ c.sets_vec_[set][w].tag = tag

VictimLine(e) == e.before.sets_vec_[EvSet(e)][e.victim]
FilledLine(e) == e.after.sets_vec_[EvSet(e)][e.victim]

DirtyEviction(e) == ~e.hit /\ VictimLine(e).valid /\ VictimLine(e).dirty

Forwarded(e, op) == Cardinality({k \in 1..Len(e.fwd) : e.fwd[k].op = op})

\* the calls received by L2 during the request are the calls L1 forwarded
L2Calls ==
  LET ev2 == SelectSeq(events, LAMBDA e : e.name = "L2")
  IN [k \in 1..Len(ev2) |-> [op |-> ev2[k].op, addr |-> ev2[k].addr]]

FwdDelivered ==
  \A i \in EvIdx : events[i].name = "L1" => events[i].fwd = L2Calls

Delta(e, f) == e.after.stats_[f] - e.before.stats_[f]

\* C1: after N calls of L1's access by the driver, reads + writes = N,
\* read_misses <= reads and write_misses <= writes.
C1_CounterTotals ==
  /\ l1.stats_.reads + l1.stats_.writes = N
  /\ l1.stats_.read_misses <= l1.stats_.reads
  /\ l1.stats_.write_misses <= l1.stats_.writes

C1_Witness ==
  /\ has_l2
  /\ N >= 3
  /\ l1.stats_.read_misses >= 1 /\ l1.stats_.reads > l1.stats_.read_misses
  /\ l1.stats_.write_misses >= 1

\* C2: in every engine, no set holds two valid lines with equal tags.
C2_UniqueTags ==
  \A k \in 1..Len(Engines) :
    LET c == Engines[k]
    IN \A s \in Sets(c) : \A w1, w2 \in Ways(c) :
         (w1 # w2 /\ c.sets_vec_[s][w1].valid /\ c.sets_vec_[s][w2].valid)
           => c.sets_vec_[s][w1].tag # c.sets_vec_[s][w2].tag

\* a full two-way set after a replacement in L1 and in L2
C2_Witness ==
  /\ has_l2
  /\ \E k \in 1..Len(Engines) :
       LET c == Engines[k]
       IN /\ c.cfg_.assoc = 2
          /\ \E s \in Sets(c) : \A w \in Ways(c) : c.sets_vec_[s][w].valid
          /\ c.stats_.read_misses + c.stats_.write_misses >= 3

\* C3: if an access missed and filled a line, the very next access to the same
\* engine with an address of the same (index, tag) is a hit and counts no miss.
C3_HitAfterFill ==
  \A i \in EvIdx :
    LET e == events[i]
    IN (/\ e.prev # <<>>
        /\ ~e.prev[1].hit
        /\ index_of(e.before, e.prev[1].addr) = EvSet(e)
        /\ tag_of(e.before, e.prev[1].addr) = EvTag(e))
       => /\ e.hit
          /\ Delta(e, "read_misses") = 0
          /\ Delta(e, "write_misses") = 0

\* a read miss followed, on the same engine, by a write to another byte of the block
C3_Witness ==
  \E i \in EvIdx :
    LET e == events[i]
    IN /\ e.prev # <<>>
       /\ ~e.prev[1].hit
       /\ e.prev[1].addr # e.addr
       /\ e.prev[1].op = Read /\ e.op = Write
       /\ index_of(e.before, e.prev[1].addr) = EvSet(e)
       /\ tag_of(e.before, e.prev[1].addr) = EvTag(e)
       /\ e.hit

\* C4: victim selection is true LRU: an invalid way is taken when there is one
\* (no valid line is evicted), and the results, the resident blocks and their
\* order of age in every engine equal those of the reference LRU stacks run
\* side by side (so the oldest line, the one evicted from a full set, is the
\* line whose last access is the oldest).
Resident(c, s) == {c.sets_vec_[s][w].tag : w \in {v \in Ways(c) : c.sets_vec_[s][v].valid}}

\* position of a valid way when the valid lines are ordered by age, youngest first
Rank(c, s, w) ==
  1 + Cardinality({v \in Ways(c) : /\ c.sets_vec_[s][v].valid
                                   /\ c.sets_vec_[s][v].lru_age < c.sets_vec_[s][w].lru_age})

StackSet(st) == {st[i] : i \in 1..Len(st)}

C4_TrueLRU ==
  /\ Len(refhit) = Len(events)
  /\ \A i \in EvIdx :
       LET e == events[i]
       IN /\ e.hit = refhit[i]
          /\ (~e.hit /\ \E w \in Ways(e.before) : ~e.before.sets_vec_[EvSet(e)][w].valid)
               => ~VictimLine(e).valid
  /\ \A k \in 1..Len(Engines) :
       LET c == Engines[k]
       IN \A s \in Sets(c) :
            /\ Resident(c, s) = StackSet(ref[c.cfg_.name][s])
            /\ \A w \in Ways(c) :
                 c.sets_vec_[s][w].valid =>
                   /\ Rank(c, s, w) <= Len(ref[c.cfg_.name][s])
                   /\ ref[c.cfg_.name][s][Rank(c, s, w)] = c.sets_vec_[s][w].tag

\* a miss in a full two-way set whose older line was the one filled last
C4_Witness ==
  \E i \in EvIdx :
    LET e == events[i]
    IN /\ ~e.hit
       /\ e.before.cfg_.assoc = 2
       /\ \A w \in Ways(e.before) : e.before.sets_vec_[EvSet(e)][w].valid
       /\ e.before.stats_.reads + e.before.stats_.writes
            > e.before.stats_.read_misses + e.before.stats_.write_misses

\* C5: a miss that evicts a valid dirty victim adds exactly 1 to writebacks and
\* either adds exactly 1 to memory_writes (no next level) or issues exactly one
\* write to the next level and leaves memory_writes unchanged (next level present).
C5_DirtyEviction ==
  /\ FwdDelivered
  /\ \A i \in EvIdx :
       LET e == events[i]
       IN DirtyEviction(e) =>
            /\ Delta(e, "writebacks") = 1
            /\ IF HasNext(e)
               THEN Forwarded(e, Write) = 1 /\ Delta(e, "memory_writes") = 0
               ELSE Forwarded(e, Write) = 0 /\ Delta(e, "memory_writes") = 1

\* one request in which L1 evicts a dirty line into L2 and L2 evicts one to memory
C5_Witness ==
  /\ \E i \in EvIdx : events[i].name = "L1" /\ HasNext(events[i]) /\ DirtyEviction(events[i])
  /\ \E i \in EvIdx : events[i].name = "L2" /\ DirtyEviction(events[i])

\* C6: a miss whose victim way is invalid, or valid and clean, leaves writebacks
\* and memory_writes unchanged and issues no write to the next level.
C6_CleanEviction ==
  /\ FwdDelivered
  /\ \A i \in EvIdx :
       LET e == events[i]
       IN (~e.hit /\ ~(VictimLine(e).valid /\ VictimLine(e).dirty)) =>
            /\ Delta(e, "writebacks") = 0
            /\ Delta(e, "memory_writes") = 0
            /\ Forwarded(e, Write) = 0

\* a valid clean line is replaced in L1 with an L2 behind it
C6_Witness ==
  \E i \in EvIdx :
    LET e == events[i]
    IN /\ HasNext(e) /\ ~e.hit
       /\ VictimLine(e).valid /\ ~VictimLine(e).dirty

\* C7: the line installed by a miss is valid, carries the address's tag and is
\* dirty exactly when the access was a write, whatever the victim's dirty flag was.
C7_FillDirtyIffWrite ==
  \A i \in EvIdx :
    LET e == events[i]
    IN ~e.hit =>
         /\ FilledLine(e).valid
         /\ FilledLine(e).tag = EvTag(e)
         /\ FilledLine(e).dirty = (e.op = Write)

\* a read miss replaces a dirty line
C7_Witness ==
  \E i \in EvIdx : DirtyEviction(events[i]) /\ events[i].op = Read

\* C8: on a hit a write leaves the line dirty, a read leaves its dirty flag as
\* it was; tag and valid flag are unchanged.
HitWay(e) ==
  CHOOSE w \in Ways(e.before) :
    /\ e.before.sets_vec_[EvSet(e)][w].valid
    /\ e.before.sets_vec_[EvSet(e)][w].tag = EvTag(e)

C8_HitDirty ==
  \A i \in EvIdx :
    LET e == events[i]
    IN e.hit =>
         LET old == e.before.sets_vec_[EvSet(e)][HitWay(e)]
             new == e.after.sets_vec_[EvSet(e)][HitWay(e)]
         IN /\ (e.op = Write => new.dirty)
            /\ (e.op = Read => new.dirty = old.dirty)
            /\ new.tag = old.tag
            /\ new.valid = old.valid

\* a read hit on a dirty line
C8_Witness ==
  \E i \in EvIdx :
    LET e == events[i]
    IN /\ e.hit /\ e.op = Read
       /\ e.before.sets_vec_[EvSet(e)][HitWay(e)].dirty

\* C9: access returns hit exactly when the indexed set of this engine holds a
\* valid line with the address's tag at the call; an L1 miss stays a miss when
\* the forwarded fill hits in L2.
C9_HitIffResident ==
  \A i \in EvIdx :
    LET e == events[i]
    IN e.hit <=> Holds(e.before, EvSet(e), EvTag(e))

\* L1 misses and the read it forwards hits in L2
C9_Witness ==
  \E i, j \in EvIdx :
    /\ events[i].name = "L1" /\ ~events[i].hit
    /\ events[j].name = "L2" /\ events[j].op = Read /\ events[j].hit

\* C10: a miss with no next level adds exactly 1 to memory_reads and, unless it
\* evicts a dirty line, leaves memory_writes unchanged; a miss with a next level
\* issues exactly one read to it and leaves memory_reads unchanged.
C10_FillTraffic ==
  /\ FwdDelivered
  /\ \A i \in EvIdx :
       LET e == events[i]
       IN ~e.hit =>
            IF HasNext(e)
            THEN Forwarded(e, Read) = 1 /\ Delta(e, "memory_reads") = 0
            ELSE /\ Forwarded(e, Read) = 0
                 /\ Delta(e, "memory_reads") = 1
                 /\ (~DirtyEviction(e) => Delta(e, "memory_writes") = 0)

\* a write miss in L1 served by a read miss in L2
C10_Witness ==
  \E i, j \in EvIdx :
    /\ events[i].name = "L1" /\ ~events[i].hit /\ events[i].op = Write
    /\ events[j].name = "L2" /\ ~events[j].hit /\ events[j].op = Read

\* ---- the trace loop with the requests and results kept ----
ScenarioConfig ==
  [BLOCKSIZE |-> 32, L1_SIZE |-> 64, L1_ASSOC |-> 1, L2_SIZE |-> 0, L2_ASSOC |-> 0]

TraceConfigs ==
  { ScenarioConfig,
    [BLOCKSIZE |-> 4, L1_SIZE |-> 8,  L1_ASSOC |-> 1, L2_SIZE |-> 8,  L2_ASSOC |-> 1],
    [BLOCKSIZE |-> 4, L1_SIZE |-> 8,  L1_ASSOC |-> 2, L2_SIZE |-> 16, L2_ASSOC |-> 2] }

InitTrace == InitWith(TraceConfigs)

TracedRequest(op, addr) ==
  /\ N < MaxAccesses
  /\ Serve(op, addr, TRUE)

NextTrace == \E op \in Op, addr \in Addrs : TracedRequest(op, addr)

SpecTrace == InitTrace /\ [][NextTrace]_vars

\* ---- the public operations of Cache called in any order ----
ApiConfigs ==
  { [BLOCKSIZE |-> 4, L1_SIZE |-> 8,  L1_ASSOC |-> 2, L2_SIZE |-> 0,  L2_ASSOC |-> 0],
    [BLOCKSIZE |-> 4, L1_SIZE |-> 8,  L1_ASSOC |-> 1, L2_SIZE |-> 16, L2_ASSOC |-> 2] }

InitApi == InitWith(ApiConfigs)

Names == {"L1"} \cup (IF has_l2 THEN {"L2"} ELSE {})

Engine(n) == IF n = "L1" THEN l1 ELSE l2[1]

ApiRequest(op, addr) ==
  /\ N < MaxApiAccesses
  /\ Serve(op, addr, FALSE)

\* l1.print_contents(os) or l2->print_contents(os)
PrintContents(n) ==
  /\ \E r \in print_contents(Engine(n)) :
       /\ l1' = IF n = "L1" THEN r.self ELSE l1
       /\ l2' = IF n = "L2" THEN <<r.self>> ELSE l2
       /\ report' = [NoReport EXCEPT !.kind = "print", !.name = n, !.text = r.text,
                                     !.again = (report.kind = "print" /\ report.name = n)]
  /\ events' = <<>>
  /\ refhit' = <<>>
  /\ UNCHANGED <<params, N, lastEv, ref, hist>>

\* l1.reset() or l2->reset()
Reset(n) ==
  /\ l1' = IF n = "L1" THEN reset(l1) ELSE l1
  /\ l2' = IF n = "L2" THEN <<reset(l2[1])>> ELSE l2
  /\ report' = [NoReport EXCEPT !.kind = "reset", !.name = n,
                                !.used = (Engine(n).stats_.reads + Engine(n).stats_.writes > 0)]
  /\ lastEv' = [lastEv EXCEPT ![n] = <<>>]
  /\ ref' = [ref EXCEPT ![n] = EmptyRef(Engine(n))]
  /\ events' = <<>>
  /\ refhit' = <<>>
  /\ UNCHANGED <<params, N, hist>>

NextApi ==
  \/ \E op \in Op, addr \in Addrs : ApiRequest(op, addr)
  \/ \E n \in Names : PrintContents(n)
  \/ \E n \in Names : Reset(n)

SpecApi == InitApi /\ [][NextApi]_vars

\* C11: the contents snapshot changes no line field and no counter, and two
\* snapshots of one engine in a row, with no access in between, give the same output.
C11_SnapshotPure ==
  [][report'.kind = "print" =>
       /\ l1' = l1
       /\ l2' = l2
       /\ (report'.again => report'.text = report.text)]_vars

\* a second snapshot in a row of an engine holding two lines in one set
C11_Witness ==
  /\ report.kind = "print"
  /\ report.again
  /\ \E k \in 1..Len(report.text) : Len(report.text[k].items) = 2

\* C12: the snapshot has one entry for exactly the sets holding a valid line,
\* and each entry lists exactly the valid lines of the set as (tag, dirty)
\* pairs from the most recently to the least recently accessed.
RECURSIVE HexValue(_)
HexValue(ds) ==
  IF Len(ds) = 0 THEN 0
  ELSE 16 * HexValue(SubSeq(ds, 1, Len(ds) - 1)) + ds[Len(ds)]

LineWithTag(c, s, tag) ==
  c.sets_vec_[s][CHOOSE w \in ValidWays(c, s) : c.sets_vec_[s][w].tag = tag]

C12_SnapshotContents ==
  report.kind = "print" =>
    LET c == Engine(report.name)
        t == report.text
        occupied == {s \in Sets(c) : ValidWays(c, s) # {}}
    IN /\ Len(t) = Cardinality(occupied)
       /\ {t[k].set : k \in 1..Len(t)} = occupied
       /\ \A k \in 1..Len(t) :
            LET s == t[k].set
                st == ref[report.name][s]
            IN /\ Len(t[k].items) = Cardinality(ValidWays(c, s))
               /\ Len(t[k].items) = Len(st)
               /\ \A i \in 1..Len(st) :
                    /\ HexValue(t[k].items[i].hex) = st[i]
                    /\ t[k].items[i].D = LineWithTag(c, s, st[i]).dirty

\* a snapshot of a full two-way set whose way 0, filled first, is the most
\* recent again, with a dirty line in it
C12_Witness ==
  /\ report.kind = "print"
  /\ \E k \in 1..Len(report.text) :
       LET c == Engine(report.name)
           it == report.text[k].items
           s == report.text[k].set
       IN /\ Len(it) = 2
          /\ c.sets_vec_[s][0].lru_age = 0
          /\ HexValue(it[1].hex) = c.sets_vec_[s][0].tag
          /\ it[1].D # it[2].D

\* C13: reset returns every line of the engine to invalid and every counter to
\* zero, as freshly constructed with the same geometry, and changes nothing in
\* the other engine.
AsConstructed(c2, c) ==
  /\ c2 = Cache(c.cfg_)
  /\ c2.cfg_ = c.cfg_ /\ c2.sets_ = c.sets_
  /\ c2.off_bits_ = c.off_bits_ /\ c2.idx_bits_ = c.idx_bits_ /\ c2.idx_mask_ = c.idx_mask_
  /\ \A f \in DOMAIN c2.stats_ : c2.stats_[f] = 0
  /\ \A s \in Sets(c) : \A w \in Ways(c) :
       c2.sets_vec_[s][w] = [valid |-> FALSE, dirty |-> FALSE, tag |-> 0, lru_age |-> w]

L2Events == SelectSeq(events, LAMBDA e : e.name = "L2")

C14_ForwardOrder ==
  /\ FwdDelivered
  /\ \A k \in 1..(Len(L2Events) - 1) : L2Events[k + 1].before = L2Events[k].after
  /\ \A i \in EvIdx :
       LET e == events[i]
       IN (HasNext(e) /\ ~e.hit) =>
            /\ i = Len(events)
            /\ \A k \in 1..(i - 1) : events[k].name = "L2"
            /\ Len(e.fwd) \in {1, 2}
            /\ Forwarded(e, Write) <= 1
            /\ Forwarded(e, Read) = 1
            /\ e.fwd[Len(e.fwd)].op = Read
            /\ Len(e.at) = Len(e.fwd)
            /\ \A k \in 1..Len(e.at) : e.at[k].sets_vec_ = e.before.sets_vec_
            /\ FilledLine(e).valid /\ FilledLine(e).tag = EvTag(e)
            /\ l2 = <<L2Events[Len(L2Events)].after>>

\* an L1 miss that writes its dirty victim to L2 and then reads the block from L2
C14_Witness ==
  \E i \in EvIdx :
    /\ HasNext(events[i]) /\ ~events[i].hit
    /\ Len(events[i].fwd) = 2
    /\ Len(L2Events) = 2
    /\ L2Events[1].after # L2Events[1].before

\* C15: calls forwarded into L2 forward no further: L2 serves every miss and
\* dirty eviction from memory, so L2.memory_reads = L2.read_misses +
\* L2.write_misses and L2.memory_writes = L2.writebacks, and one L1 access
\* makes at most two L2 accesses.
C15_L2Terminal ==
  /\ Len(L2Events) <= 2
  /\ \A k \in 1..Len(L2Events) : L2Events[k].fwd = <<>>
  /\ has_l2 =>
       /\ l2[1].stats_.memory_reads = l2[1].stats_.read_misses + l2[1].stats_.write_misses
       /\ l2[1].stats_.memory_writes = l2[1].stats_.writebacks

\* L2 has evicted a dirty line to memory while serving two calls of one L1 access
C15_Witness ==
  /\ has_l2
  /\ Len(L2Events) = 2
  /\ l2[1].stats_.writebacks >= 1
  /\ l2[1].stats_.write_misses + l2[1].stats_.read_misses >= 2

\* C16: a hit changes only reads or writes, the hit line's dirty flag (write
\* only) and the recency values of the target set; the miss, writeback and
\* memory counters are unchanged and no call is made on the next level, whose
\* lines and counters stay as they were.
HitFrame(e) ==
  /\ e.fwd = <<>>
  /\ Delta(e, "reads") = (IF e.op = Read THEN 1 ELSE 0)
  /\ Delta(e, "writes") = (IF e.op = Write THEN 1 ELSE 0)
  /\ \A f \in DOMAIN e.before.stats_ \ {"reads", "writes"} : Delta(e, f) = 0
  /\ [e.after EXCEPT !.stats_ = e.before.stats_, !.sets_vec_ = e.before.sets_vec_] = e.before
  /\ \A s \in Sets(e.before) : \A w \in Ways(e.before) :
       LET old == e.before.sets_vec_[s][w]
           new == e.after.sets_vec_[s][w]
       IN /\ new.valid = old.valid
          /\ new.tag = old.tag
          /\ (new.dirty # old.dirty => s = EvSet(e) /\ w = HitWay(e) /\ e.op = Write)
          /\ (new.lru_age # old.lru_age => s = EvSet(e))

C16_HitFrame ==
  [][\A i \in 1..Len(events') :
       events'[i].hit =>
         /\ HitFrame(events'[i])
         /\ (events'[i].name = "L1" => Len(events') = 1 /\ l2' = l2)]_vars

\* a write hit in L1 on a clean line, with an L2 behind it
C16_Witness ==
  \E i \in EvIdx :
    LET e == events[i]
    IN /\ HasNext(e) /\ e.hit /\ e.op = Write
       /\ ~e.before.sets_vec_[EvSet(e)][HitWay(e)].dirty
       /\ l2[1].stats_.reads > 0

\* C17: when a way becomes most recently used (hit or fill), its recency is 0,
\* every other way of the set that was valid is exactly one older, and the
\* recency of every invalid way of the set is unchanged.
TouchedWay(e) == IF e.hit THEN HitWay(e) ELSE e.victim

C17_Aging ==
  \A i \in EvIdx :
    LET e == events[i]
        s == EvSet(e)
    IN /\ e.after.sets_vec_[s][TouchedWay(e)].lru_age = 0
       /\ \A w \in Ways(e.before) \ {TouchedWay(e)} :
            e.after.sets_vec_[s][w].lru_age =
              IF e.before.sets_vec_[s][w].valid
              THEN e.before.sets_vec_[s][w].lru_age + 1
              ELSE e.before.sets_vec_[s][w].lru_age

\* a hit while the other line of the set, valid, was already older
C17_Witness ==
  \E i \in EvIdx :
    LET e == events[i]
    IN /\ e.hit
       /\ \E w \in Ways(e.before) \ {HitWay(e)} :
            /\ e.before.sets_vec_[EvSet(e)][w].valid
            /\ e.before.sets_vec_[EvSet(e)][w].lru_age >= 1
            /\ e.after.sets_vec_[EvSet(e)][w].lru_age >= 2

\* C18: every address L1 passes to L2 has all offset bits zero; the writeback
\* address of a dirty victim decodes at the evicting level to the victim's set
\* index and stored tag, and names in L2 the block L1 evicted.
C18_BlockAddress ==
  /\ FwdDelivered
  /\ \A i \in EvIdx :
       LET e == events[i]
           bs == e.before.cfg_.block_bytes
       IN /\ \A k \in 1..Len(e.fwd) : e.fwd[k].addr % bs = 0
          /\ (HasNext(e) /\ ~e.hit) =>
               e.fwd[Len(e.fwd)].addr = bs * (e.addr \div bs)
          /\ (HasNext(e) /\ DirtyEviction(e)) =>
               LET a == e.fwd[1].addr
                   w2 == L2Events[1]
               IN /\ e.fwd[1].op = Write
                  /\ index_of(e.before, a) = EvSet(e)
                  /\ tag_of(e.before, a) = VictimLine(e).tag
                  /\ a \div bs = VictimLine(e).tag * e.before.sets_ + EvSet(e)
                  /\ w2.addr = a
                  /\ Holds(w2.after, index_of(w2.before, a), tag_of(w2.before, a))
                  /\ LineWithTag(w2.after, index_of(w2.before, a),
                                 tag_of(w2.before, a)).dirty

\* L1 evicts a dirty line with non-zero tag from a set with non-zero index,
\* for a request that is not block aligned
C18_Witness ==
  \E i \in EvIdx :
    LET e == events[i]
    IN /\ HasNext(e) /\ DirtyEviction(e)
       /\ EvSet(e) = 1
       /\ VictimLine(e).tag = 1
       /\ e.addr % e.before.cfg_.block_bytes # 0

\* C19: an access decoding to set i changes no field of any line of another
\* set of the engine; with block 32, 1 way, 2 sets, the reads of 0x00, 0x20,
\* 0x00 give miss, miss, hit.
C19_OtherSets ==
  /\ \A i \in EvIdx :
       LET e == events[i]
       IN \A j \in Sets(e.before) \ {EvSet(e)} :
            e.after.sets_vec_[j] = e.before.sets_vec_[j]
  /\ (/\ params = ScenarioConfig
      /\ Len(hist) >= 3
      /\ \A k \in 1..3 : hist[k].op = Read
      /\ hist[1].addr = 0 /\ hist[2].addr = 32 /\ hist[3].addr = 0)
     => (~hist[1].hit /\ ~hist[2].hit /\ hist[3].hit)

\* the three reads of the scenario have just been made
C19_Witness ==
  /\ params = ScenarioConfig
  /\ Len(hist) = 3
  /\ \A k \in 1..3 : hist[k].op = Read
  /\ hist[1].addr = 0 /\ hist[2].addr = 32 /\ hist[3].addr = 0
  /\ \E s \in Sets(l1) : s # EvSet(events[1]) /\ ValidWays(l1, s) # {}

\* C20: with an L2, L2.reads = L1.read_misses + L1.write_misses, L2.writes =
\* L1.writebacks and L1.memory_reads = L1.memory_writes = 0; without an L2,
\* L1.memory_reads = L1.read_misses + L1.write_misses and L1.memory_writes =
\* L1.writebacks.
C20_TrafficBalance ==
  IF has_l2
  THEN /\ l2[1].stats_.reads = l1.stats_.read_misses + l1.stats_.write_misses
       /\ l2[1].stats_.writes = l1.stats_.writebacks
       /\ l1.stats_.memory_reads = 0
       /\ l1.stats_.memory_writes = 0
  ELSE /\ l1.stats_.memory_reads = l1.stats_.read_misses + l1.stats_.write_misses
       /\ l1.stats_.memory_writes = l1.stats_.writebacks

\* L1 has written back into L2 and L2 has missed and hit
C20_Witness ==
  /\ has_l2
  /\ l1.stats_.writebacks >= 1
  /\ l2[1].stats_.reads >= 2
  /\ l2[1].stats_.read_misses < l2[1].stats_.reads

\* C21: in every engine the recency values of the valid lines of a set are
\* pairwise distinct and a set with a valid line has exactly one valid line of
\* recency 0; so in a full set the line of largest recency is unique and the
\* scan-order tie-break (>=) of the victim selection never decides.
\* the victim scan with the strict comparison, which keeps the first way of
\* maximal age instead of the last
RECURSIVE StrictVictimLoop(_, _, _, _)
StrictVictimLoop(lines, w, victim, max_age) ==
  IF w >= Len(lines) THEN victim
  ELSE IF ~lines[w + 1].valid THEN w
  ELSE IF lines[w + 1].lru_age > max_age
       THEN StrictVictimLoop(lines, w + 1, w, lines[w + 1].lru_age)
       ELSE StrictVictimLoop(lines, w + 1, victim, max_age)

Oldest(c, s) ==
  {w \in ValidWays(c, s) :
     \A v \in ValidWays(c, s) : c.sets_vec_[s][v].lru_age <= c.sets_vec_[s][w].lru_age}

C21_DistinctRecency ==
  \A k \in 1..Len(Engines) :
    LET c == Engines[k]
    IN \A s \in Sets(c) :
         /\ \A w1, w2 \in ValidWays(c, s) :
              w1 # w2 => c.sets_vec_[s][w1].lru_age # c.sets_vec_[s][w2].lru_age
         /\ ValidWays(c, s) # {} =>
              Cardinality({w \in ValidWays(c, s) : c.sets_vec_[s][w].lru_age = 0}) = 1
         /\ ValidWays(c, s) = Ways(c) =>
              /\ Oldest(c, s) = {choose_victim_way(c, s)}
              /\ StrictVictimLoop(LinesOf(c, s), 0, 0, 0) = choose_victim_way(c, s)

\* a full two-way set in L1 whose older line has aged more than once, and a
\* full two-way set in L2
C21_Witness ==
  /\ has_l2
  /\ \E s \in Sets(l1) :
       /\ l1.cfg_.assoc = 2
       /\ ValidWays(l1, s) = Ways(l1)
       /\ \E w \in Ways(l1) : l1.sets_vec_[s][w].lru_age >= 2
  /\ \E s \in Sets(l2[1]) :
       /\ l2[1].cfg_.assoc = 2
       /\ ValidWays(l2[1], s) = Ways(l2[1])
====
